---- MODULE Spec2Model ----
(***************************************************************************)
(* Statement AST nodes of include/swift/AST/Stmt.h as a state machine.     *)
(*                                                                         *)
(* One node is under observation at a time: `stmt` holds its fields, a     *)
(* client (parser, Sema, an ASTWalker) constructs it and then calls its    *)
(* member functions in any order.  Pointers to other nodes are opaque      *)
(* identities 1..MaxPtr, 0 is nullptr.  A SourceLoc is a position 1..MaxLoc*)
(* and 0 is the invalid location.  A failed assert ends the program; the   *)
(* model is of a build in which NDEBUG is not defined.                     *)
(***************************************************************************)
EXTENDS Integers, Sequences, FiniteSets, TLC

\* ---- bounds ------------------------------------------------------------
MaxPtr == 2
MaxLoc == 2
MaxElems == 2
MaxItems == 2
MaxChild == 1

\* ---- value domains -----------------------------------------------------
nullptr == 0
Ptr == 0..MaxPtr
Loc == 0..MaxLoc
\* Operand slots (Expr *, Stmt *, Pattern *, Decl *): 0 is nullptr.
ChildPtr == 0..MaxChild
OptBool == {"Nothing", "true", "false"}
NoVal == -1

\* Identifier: 0 is the empty identifier.
Identifier == 0..1

\* SourceLoc::isValid / isInvalid
isValid(L) == L # 0
isInvalid(L) == ~isValid(L)

\* llvm::PointerIntPair<T *, 1, bool>
PointerIntPair(p, i) == [Pointer |-> p, Int |-> i]
setPointer(pair, p) == [pair EXCEPT !.Pointer = p]

\* struct LabeledStmtInfo
LabeledStmtInfo == [Name : Identifier, Loc : Loc]
\* class CaseLabelItem
CaseLabelItem(IsDefault, CasePattern, GuardExpr) ==
  [CasePattern |-> CasePattern,
   GuardExprAndIsDefault |-> PointerIntPair(GuardExpr, IsDefault)]
\* The items a parser builds: a pattern is always present, a guard may be absent.
CaseLabelItems ==
  {CaseLabelItem(d, p, g) : d \in BOOLEAN, p \in 1..MaxChild, g \in ChildPtr}
CaseLabelItem_isDefault(item) == item.GuardExprAndIsDefault.Int
\* Sequences of length lo..hi over S.
SeqsOf(S, lo, hi) == UNION {[1..n -> S] : n \in lo..hi}

VARIABLES
  stmt,     \* the node: a record of its fields, Kind = "None" before construction
  call,     \* the last member function called: name, argument, returned value
  hist,     \* what the client has done so far (construction arguments, resolution)
  aborted   \* an assert has failed

vars == <<stmt, call, hist, aborted>>

NoStmt == [Kind |-> "None"]
NoHist == [count |-> 0, active |-> FALSE, called |-> FALSE, first |-> nullptr]

Init ==
  /\ stmt = NoStmt
  /\ call = [op |-> "none", arg |-> NoVal, ret |-> NoVal]
  /\ hist = NoHist
  /\ aborted = FALSE

\* Stmt::getDefaultImplicitFlag
getDefaultImplicitFlag(implicit, keyLoc) ==
  IF implicit # "Nothing" THEN implicit = "true" ELSE isInvalid(keyLoc)

\* Stmt::Stmt(StmtKind kind, bool implicit)
Stmt(kind, implicit) == [Kind |-> kind, Implicit |-> implicit]

\* Stmt::getKind, Stmt::isImplicit
getKind(s) == s.Kind
isImplicit(s) == s.Implicit

\* LabeledStmt::LabeledStmt
LabeledStmt(Kind, Implicit, LabelInfo) ==
  Stmt(Kind, Implicit) @@ [LabelInfo |-> LabelInfo]

\* The client can call a member function of a node of kind k.
Alive(k) == ~aborted /\ stmt.Kind = k

\* A constructor or factory returns the node s.
Construct(op, arg, s, h) ==
  /\ ~aborted
  /\ stmt = NoStmt
  /\ stmt' = s
  /\ call' = [op |-> op, arg |-> arg, ret |-> NoVal]
  /\ hist' = h
  /\ UNCHANGED aborted

\* A member function returns (ret = NoVal for void) and leaves the node as s.
Return(op, arg, ret, s) ==
  /\ stmt' = s
  /\ call' = [op |-> op, arg |-> arg, ret |-> ret]
  /\ UNCHANGED aborted

\* A failed assert: the program ends inside the member function.
AssertFail(op, arg) ==
  /\ aborted' = TRUE
  /\ call' = [op |-> op, arg |-> arg, ret |-> NoVal]
  /\ UNCHANGED <<stmt, hist>>

\* The first non-null target handed to a resolution setter.
Resolve(T) ==
  hist' = [hist EXCEPT !.called = TRUE,
                       !.first = IF hist.first = nullptr THEN T ELSE @]

\* ---- BreakStmt ---------------------------------------------------------
\* Target has no initializer: its value after construction is indeterminate.
BreakStmt_ctor ==
  /\ stmt = NoStmt
  /\ \E L \in Loc, TargetName \in Identifier, TargetLoc \in Loc,
        implicit \in OptBool :
       \E T \in Ptr :
         Construct("BreakStmt", NoVal,
                   Stmt("Break", getDefaultImplicitFlag(implicit, L)) @@
                   [Loc |-> L, TargetName |-> TargetName, TargetLoc |-> TargetLoc,
                    Target |-> T],
                   NoHist)

BreakStmt_setTargetName(N) ==
  /\ Alive("Break")
  /\ Return("setTargetName", N, NoVal, [stmt EXCEPT !.TargetName = N])
  /\ UNCHANGED hist

BreakStmt_setTargetLoc(L) ==
  /\ Alive("Break")
  /\ Return("setTargetLoc", L, NoVal, [stmt EXCEPT !.TargetLoc = L])
  /\ UNCHANGED hist

BreakStmt_setTarget(LS) ==
  /\ Alive("Break")
  /\ Return("setTarget", LS, NoVal, [stmt EXCEPT !.Target = LS])
  /\ Resolve(LS)

BreakStmt_getTarget ==
  /\ Alive("Break")
  /\ Return("getTarget", NoVal, stmt.Target, stmt)
  /\ UNCHANGED hist

SourceRange(Start, End) == [Start |-> Start, End |-> End]

BreakStmt_SourceRange_noValidCheck(s) == SourceRange(s.Loc, s.TargetLoc)

BreakStmt_SourceRange(s) ==
  SourceRange(s.Loc, IF isValid(s.TargetLoc) THEN s.TargetLoc ELSE s.Loc)

BreakStmt_getSourceRange ==
  /\ Alive("Break")
  /\ Return("getSourceRange", NoVal, BreakStmt_SourceRange(stmt), stmt)
  /\ UNCHANGED hist

\* ---- ContinueStmt ------------------------------------------------------
\* Target has no initializer: its value after construction is indeterminate.
ContinueStmt_ctor ==
  /\ stmt = NoStmt
  /\ \E L \in Loc, TargetName \in Identifier, TargetLoc \in Loc,
        implicit \in OptBool :
       \E T \in Ptr :
         Construct("ContinueStmt", NoVal,
                   Stmt("Continue", getDefaultImplicitFlag(implicit, L)) @@
                   [Loc |-> L, TargetName |-> TargetName, TargetLoc |-> TargetLoc,
                    Target |-> T],
                   NoHist)

ContinueStmt_setTargetName(N) ==
  /\ Alive("Continue")
  /\ Return("setTargetName", N, NoVal, [stmt EXCEPT !.TargetName = N])
  /\ UNCHANGED hist

ContinueStmt_setTargetLoc(L) ==
  /\ Alive("Continue")
  /\ Return("setTargetLoc", L, NoVal, [stmt EXCEPT !.TargetLoc = L])
  /\ UNCHANGED hist

ContinueStmt_setTarget(LS) ==
  /\ Alive("Continue")
  /\ Return("setTarget", LS, NoVal, [stmt EXCEPT !.Target = LS])
  /\ Resolve(LS)

ContinueStmt_getTarget ==
  /\ Alive("Continue")
  /\ Return("getTarget", NoVal, stmt.Target, stmt)
  /\ UNCHANGED hist

ContinueStmt_SourceRange(s) ==
  SourceRange(s.Loc, IF isValid(s.TargetLoc) THEN s.TargetLoc ELSE s.Loc)

ContinueStmt_getSourceRange ==
  /\ Alive("Continue")
  /\ Return("getSourceRange", NoVal, ContinueStmt_SourceRange(stmt), stmt)
  /\ UNCHANGED hist

\* ---- FallthroughStmt ---------------------------------------------------
FallthroughStmt_ctor ==
  /\ stmt = NoStmt
  /\ \E L \in Loc, implicit \in OptBool :
       Construct("FallthroughStmt", NoVal,
                 Stmt("Fallthrough", getDefaultImplicitFlag(implicit, L)) @@
                 [Loc |-> L, FallthroughDest |-> nullptr],
                 NoHist)

FallthroughStmt_SourceRange(s) == SourceRange(s.Loc, s.Loc)

FallthroughStmt_getSourceRange ==
  /\ Alive("Fallthrough")
  /\ Return("getSourceRange", NoVal, FallthroughStmt_SourceRange(stmt), stmt)
  /\ UNCHANGED hist

FallthroughStmt_getFallthroughDest_noAssert ==
  /\ Alive("Fallthrough")
  /\ Return("getFallthroughDest", NoVal, stmt.FallthroughDest, stmt)
  /\ UNCHANGED hist

FallthroughStmt_getFallthroughDest ==
  /\ Alive("Fallthrough")
  /\ IF stmt.FallthroughDest = nullptr
       THEN AssertFail("getFallthroughDest", NoVal)
       ELSE /\ Return("getFallthroughDest", NoVal, stmt.FallthroughDest, stmt)
            /\ UNCHANGED hist

FallthroughStmt_setFallthroughDest_noAssert(C) ==
  /\ Alive("Fallthrough")
  /\ Return("setFallthroughDest", C, NoVal, [stmt EXCEPT !.FallthroughDest = C])
  /\ Resolve(C)

FallthroughStmt_setFallthroughDest(C) ==
  /\ Alive("Fallthrough")
  /\ IF stmt.FallthroughDest # nullptr
       THEN AssertFail("setFallthroughDest", C)
       ELSE /\ Return("setFallthroughDest", C, NoVal,
                      [stmt EXCEPT !.FallthroughDest = C])
            /\ Resolve(C)

\* ---- BraceStmt ---------------------------------------------------------
\* BraceStmt::create: one allocation, the header followed by the elements.
BraceStmt_create ==
  /\ stmt = NoStmt
  /\ \E lbloc \in Loc, elements \in SeqsOf(Ptr, 0, MaxElems), rbloc \in Loc,
        implicit \in OptBool :
       Construct("BraceStmt::create", elements,
                 Stmt("Brace", getDefaultImplicitFlag(implicit, lbloc)) @@
                 [NumElements |-> Len(elements),
                  IsConfigBlock |-> FALSE, IsInactiveConfigBlock |-> FALSE,
                  LBLoc |-> lbloc, RBLoc |-> rbloc,
                  ElementsStorage |-> elements],
                 [NoHist EXCEPT !.count = Len(elements)])

BraceStmt_getElements_dropsLast(s) ==
  SubSeq(s.ElementsStorage, 1, s.NumElements - 1)

\* MutableArrayRef<ASTNode>(getElementsStorage(), NumElements)
BraceStmt_getElements(s) == SubSeq(s.ElementsStorage, 1, s.NumElements)

BraceStmt_SourceRange(s) == SourceRange(s.LBLoc, s.RBLoc)

BraceStmt_getSourceRange ==
  /\ Alive("Brace")
  /\ Return("getSourceRange", NoVal, BraceStmt_SourceRange(stmt), stmt)
  /\ UNCHANGED hist

BraceStmt_setElement_fill(i, N) ==
  /\ Alive("Brace")
  /\ i \in 1..Len(BraceStmt_getElements(stmt))
  /\ Return("getElements[]=", <<i, N>>, NoVal,
            [stmt EXCEPT !.ElementsStorage = [j \in DOMAIN @ |-> N]])
  /\ UNCHANGED hist

\* getElements()[i] = N through the MutableArrayRef
BraceStmt_setElement(i, N) ==
  /\ Alive("Brace")
  /\ i \in 1..Len(BraceStmt_getElements(stmt))
  /\ Return("getElements[]=", <<i, N>>, NoVal,
            [stmt EXCEPT !.ElementsStorage[i] = N])
  /\ UNCHANGED hist

BraceStmt_markAsConfigBlock ==
  /\ Alive("Brace")
  /\ Return("markAsConfigBlock", NoVal, NoVal,
            [stmt EXCEPT !.IsConfigBlock = TRUE])
  /\ UNCHANGED hist

BraceStmt_markAsInactiveConfigBlock_setsImplicit ==
  /\ Alive("Brace")
  /\ Return("markAsInactiveConfigBlock", NoVal, NoVal,
            [stmt EXCEPT !.Implicit = TRUE])
  /\ UNCHANGED hist

BraceStmt_markAsInactiveConfigBlock_alsoConfig ==
  /\ Alive("Brace")
  /\ Return("markAsInactiveConfigBlock", NoVal, NoVal,
            [stmt EXCEPT !.IsInactiveConfigBlock = TRUE, !.IsConfigBlock = TRUE])
  /\ UNCHANGED hist

BraceStmt_markAsInactiveConfigBlock ==
  /\ Alive("Brace")
  /\ Return("markAsInactiveConfigBlock", NoVal, NoVal,
            [stmt EXCEPT !.IsInactiveConfigBlock = TRUE])
  /\ UNCHANGED hist

\* ---- CaseStmt ----------------------------------------------------------
\* CaseStmt::create: the header followed by the label items, at least one.
CaseStmt_create ==
  /\ stmt = NoStmt
  /\ \E CaseLoc \in Loc, Items \in SeqsOf(CaseLabelItems, 1, MaxItems),
        HasBoundDecls \in BOOLEAN, Body \in ChildPtr, Implicit \in OptBool :
       /\ Len(Items) >= 1
       /\ Construct("CaseStmt::create", Items,
                    Stmt("Case", getDefaultImplicitFlag(Implicit, CaseLoc)) @@
                    [BodyAndHasBoundDecls |-> PointerIntPair(Body, HasBoundDecls),
                     NumPatterns |-> Len(Items),
                     CaseLabelItemsBuffer |-> Items],
                    [NoHist EXCEPT !.count = Len(Items)])

\* { getCaseLabelItemsBuffer(), NumPatterns }
CaseStmt_getCaseLabelItems(s) == SubSeq(s.CaseLabelItemsBuffer, 1, s.NumPatterns)
CaseStmt_getMutableCaseLabelItems(s) ==
  SubSeq(s.CaseLabelItemsBuffer, 1, s.NumPatterns)

\* getMutableCaseLabelItems()[i] = Item
CaseStmt_setCaseLabelItem(i, Item) ==
  /\ Alive("Case")
  /\ i \in 1..Len(CaseStmt_getMutableCaseLabelItems(stmt))
  /\ Return("getMutableCaseLabelItems[]=", NoVal, NoVal,
            [stmt EXCEPT !.CaseLabelItemsBuffer[i] = Item])
  /\ UNCHANGED hist

\* getMutableCaseLabelItems()[i].setPattern(P)
CaseLabelItem_setPattern(i, P) ==
  /\ Alive("Case")
  /\ i \in 1..Len(CaseStmt_getMutableCaseLabelItems(stmt))
  /\ Return("setPattern", NoVal, NoVal,
            [stmt EXCEPT !.CaseLabelItemsBuffer[i].CasePattern = P])
  /\ UNCHANGED hist

\* getMutableCaseLabelItems()[i].setGuardExpr(e)
CaseLabelItem_setGuardExpr(i, e) ==
  /\ Alive("Case")
  /\ i \in 1..Len(CaseStmt_getMutableCaseLabelItems(stmt))
  /\ Return("setGuardExpr", NoVal, NoVal,
            [stmt EXCEPT !.CaseLabelItemsBuffer[i].GuardExprAndIsDefault =
                           setPointer(@, e)])
  /\ UNCHANGED hist

CaseStmt_setBody(body) ==
  /\ Alive("Case")
  /\ Return("setBody", body, NoVal,
            [stmt EXCEPT !.BodyAndHasBoundDecls = setPointer(@, body)])
  /\ UNCHANGED hist

CaseStmt_isDefault_lastItem ==
  /\ Alive("Case")
  /\ Return("isDefault", NoVal,
            CaseLabelItem_isDefault(
              CaseStmt_getCaseLabelItems(stmt)[stmt.NumPatterns]),
            stmt)
  /\ UNCHANGED hist

CaseStmt_isDefault ==
  /\ Alive("Case")
  /\ Return("isDefault", NoVal,
            CaseLabelItem_isDefault(CaseStmt_getCaseLabelItems(stmt)[1]), stmt)
  /\ UNCHANGED hist

\* ---- SwitchStmt --------------------------------------------------------
\* SwitchStmt::create: the header followed by the case pointers.
SwitchStmt_create ==
  /\ stmt = NoStmt
  /\ \E LabelInfo \in LabeledStmtInfo, SwitchLoc \in Loc,
        SubjectExpr \in ChildPtr, Cases \in SeqsOf(1..MaxPtr, 0, MaxElems) :
       Construct("SwitchStmt::create", Cases,
                 LabeledStmt("Switch", getDefaultImplicitFlag("Nothing", SwitchLoc),
                             LabelInfo) @@
                 [SubjectExpr |-> SubjectExpr, CaseCount |-> Len(Cases),
                  CaseBuffer |-> Cases],
                 [NoHist EXCEPT !.count = Len(Cases)])

\* {getCaseBuffer(), CaseCount}
SwitchStmt_getCases(s) == SubSeq(s.CaseBuffer, 1, s.CaseCount)

SwitchStmt_setSubjectExpr(e) ==
  /\ Alive("Switch")
  /\ Return("setSubjectExpr", e, NoVal, [stmt EXCEPT !.SubjectExpr = e])
  /\ UNCHANGED hist

\* The child sequence a container node exposes.
Children(s) ==
  CASE s.Kind = "Brace" -> BraceStmt_getElements(s)
    [] s.Kind = "Case" -> CaseStmt_getCaseLabelItems(s)
    [] s.Kind = "Switch" -> SwitchStmt_getCases(s)

ContainerKinds == {"Brace", "Case", "Switch"}

\* ---- ReturnStmt --------------------------------------------------------
ReturnStmt_ctor ==
  /\ stmt = NoStmt
  /\ \E ReturnLoc \in Loc, Result \in ChildPtr, implicit \in OptBool :
       Construct("ReturnStmt", NoVal,
                 Stmt("Return", getDefaultImplicitFlag(implicit, ReturnLoc)) @@
                 [ReturnLoc |-> ReturnLoc, Result |-> Result],
                 NoHist)

ReturnStmt_setResult(e) ==
  /\ Alive("Return")
  /\ Return("setResult", e, NoVal, [stmt EXCEPT !.Result = e])
  /\ UNCHANGED hist

\* ---- IfStmt ------------------------------------------------------------
IfStmt_ctor ==
  /\ stmt = NoStmt
  /\ \E IfLoc \in Loc, Cond \in ChildPtr, Then \in ChildPtr,
        Else \in ChildPtr, implicit \in OptBool :
       Construct("IfStmt", NoVal,
                 Stmt("If", getDefaultImplicitFlag(implicit, IfLoc)) @@
                 [Cond |-> Cond, Then |-> Then, Else |-> Else],
                 NoHist)

IfStmt_setCond(e) ==
  /\ Alive("If")
  /\ Return("setCond", e, NoVal, [stmt EXCEPT !.Cond = e])
  /\ UNCHANGED hist

IfStmt_setThenStmt(s) ==
  /\ Alive("If")
  /\ Return("setThenStmt", s, NoVal, [stmt EXCEPT !.Then = s])
  /\ UNCHANGED hist

IfStmt_setElseStmt(s) ==
  /\ Alive("If")
  /\ Return("setElseStmt", s, NoVal, [stmt EXCEPT !.Else = s])
  /\ UNCHANGED hist

\* ---- IfConfigStmt ------------------------------------------------------
IfConfigStmt_ctor ==
  /\ stmt = NoStmt
  /\ \E IfBlockIsActive \in BOOLEAN, Cond \in ChildPtr, Then \in Ptr,
        Else \in Ptr :
       Construct("IfConfigStmt", NoVal,
                 Stmt("IfConfig", FALSE) @@
                 [IfBlockIsActive |-> IfBlockIsActive,
                  Cond |-> Cond, Then |-> Then, Else |-> Else],
                 [NoHist EXCEPT !.active = IfBlockIsActive])

IfConfigStmt_setThenStmt(s) ==
  /\ Alive("IfConfig")
  /\ Return("setThenStmt", s, NoVal, [stmt EXCEPT !.Then = s])
  /\ UNCHANGED hist

IfConfigStmt_setElseStmt(s) ==
  /\ Alive("IfConfig")
  /\ Return("setElseStmt", s, NoVal, [stmt EXCEPT !.Else = s])
  /\ UNCHANGED hist

IfConfigStmt_setCond(e) ==
  /\ Alive("IfConfig")
  /\ Return("setCond", e, NoVal, [stmt EXCEPT !.Cond = e])
  /\ UNCHANGED hist

IfConfigStmt_isIfBlockActive(s) == s.IfBlockIsActive

IfConfigStmt_getActiveStmt_alwaysThen ==
  /\ Alive("IfConfig")
  /\ Return("getActiveStmt", NoVal, stmt.Then, stmt)
  /\ UNCHANGED hist

IfConfigStmt_getActiveStmt ==
  /\ Alive("IfConfig")
  /\ Return("getActiveStmt", NoVal,
            IF stmt.IfBlockIsActive THEN stmt.Then ELSE stmt.Else, stmt)
  /\ UNCHANGED hist

\* ---- LabeledStmt -------------------------------------------------------
\* First_LabeledStmt .. Last_LabeledStmt
LabeledStmtKinds == {"While", "DoWhile", "For", "ForEach", "Switch"}

LabeledStmt_setLabelInfo(L) ==
  /\ ~aborted
  /\ stmt.Kind \in LabeledStmtKinds
  /\ Return("setLabelInfo", L, NoVal, [stmt EXCEPT !.LabelInfo = L])
  /\ UNCHANGED hist

\* ---- WhileStmt ---------------------------------------------------------
WhileStmt_ctor ==
  /\ stmt = NoStmt
  /\ \E LabelInfo \in LabeledStmtInfo, WhileLoc \in Loc, Cond \in ChildPtr,
        Body \in ChildPtr, implicit \in OptBool :
       Construct("WhileStmt", NoVal,
                 LabeledStmt("While", getDefaultImplicitFlag(implicit, WhileLoc),
                             LabelInfo) @@
                 [Cond |-> Cond, Body |-> Body],
                 NoHist)

WhileStmt_setCond(e) ==
  /\ Alive("While")
  /\ Return("setCond", e, NoVal, [stmt EXCEPT !.Cond = e])
  /\ UNCHANGED hist

WhileStmt_setBody(s) ==
  /\ Alive("While")
  /\ Return("setBody", s, NoVal, [stmt EXCEPT !.Body = s])
  /\ UNCHANGED hist

\* ---- DoWhileStmt -------------------------------------------------------
DoWhileStmt_ctor ==
  /\ stmt = NoStmt
  /\ \E LabelInfo \in LabeledStmtInfo, DoLoc \in Loc, Cond \in ChildPtr,
        Body \in ChildPtr, implicit \in OptBool :
       Construct("DoWhileStmt", NoVal,
                 LabeledStmt("DoWhile", getDefaultImplicitFlag(implicit, DoLoc),
                             LabelInfo) @@
                 [Body |-> Body, Cond |-> Cond],
                 NoHist)

DoWhileStmt_setBody(s) ==
  /\ Alive("DoWhile")
  /\ Return("setBody", s, NoVal, [stmt EXCEPT !.Body = s])
  /\ UNCHANGED hist

DoWhileStmt_setCond(e) ==
  /\ Alive("DoWhile")
  /\ Return("setCond", e, NoVal, [stmt EXCEPT !.Cond = e])
  /\ UNCHANGED hist

\* ---- ForStmt -----------------------------------------------------------
ForStmt_ctor ==
  /\ stmt = NoStmt
  /\ \E LabelInfo \in LabeledStmtInfo, ForLoc \in Loc,
        Initializer \in ChildPtr, InitializerVarDecls \in ChildPtr,
        Cond \in ChildPtr, Increment \in ChildPtr, Body \in ChildPtr,
        implicit \in OptBool :
       Construct("ForStmt", NoVal,
                 LabeledStmt("For", getDefaultImplicitFlag(implicit, ForLoc),
                             LabelInfo) @@
                 [Initializer |-> Initializer,
                  InitializerVarDecls |-> InitializerVarDecls,
                  Cond |-> Cond, Increment |-> Increment, Body |-> Body],
                 NoHist)

ForStmt_setInitializer(V) ==
  /\ Alive("For")
  /\ Return("setInitializer", V, NoVal, [stmt EXCEPT !.Initializer = V])
  /\ UNCHANGED hist

ForStmt_setInitializerVarDecls(D) ==
  /\ Alive("For")
  /\ Return("setInitializerVarDecls", D, NoVal,
            [stmt EXCEPT !.InitializerVarDecls = D])
  /\ UNCHANGED hist

ForStmt_setCond(C) ==
  /\ Alive("For")
  /\ Return("setCond", C, NoVal, [stmt EXCEPT !.Cond = C])
  /\ UNCHANGED hist

ForStmt_setIncrement(V) ==
  /\ Alive("For")
  /\ Return("setIncrement", V, NoVal, [stmt EXCEPT !.Increment = V])
  /\ UNCHANGED hist

ForStmt_setBody(s) ==
  /\ Alive("For")
  /\ Return("setBody", s, NoVal, [stmt EXCEPT !.Body = s])
  /\ UNCHANGED hist

\* ---- ForEachStmt -------------------------------------------------------
ForEachStmt_ctor ==
  /\ stmt = NoStmt
  /\ \E LabelInfo \in LabeledStmtInfo, ForLoc \in Loc, Pat \in ChildPtr,
        Sequence \in ChildPtr, Body \in ChildPtr, implicit \in OptBool :
       Construct("ForEachStmt", NoVal,
                 LabeledStmt("ForEach", getDefaultImplicitFlag(implicit, ForLoc),
                             LabelInfo) @@
                 [Pat |-> Pat, Sequence |-> Sequence, Body |-> Body,
                  Generator |-> nullptr, GeneratorNext |-> nullptr],
                 NoHist)

ForEachStmt_setPattern(p) ==
  /\ Alive("ForEach")
  /\ Return("setPattern", p, NoVal, [stmt EXCEPT !.Pat = p])
  /\ UNCHANGED hist

ForEachStmt_setSequence(S) ==
  /\ Alive("ForEach")
  /\ Return("setSequence", S, NoVal, [stmt EXCEPT !.Sequence = S])
  /\ UNCHANGED hist

ForEachStmt_setGenerator(G) ==
  /\ Alive("ForEach")
  /\ Return("setGenerator", G, NoVal, [stmt EXCEPT !.Generator = G])
  /\ UNCHANGED hist

ForEachStmt_setGeneratorNext_writesGenerator(E) ==
  /\ Alive("ForEach")
  /\ Return("setGeneratorNext", E, NoVal, [stmt EXCEPT !.Generator = E])
  /\ UNCHANGED hist

ForEachStmt_setGeneratorNext(E) ==
  /\ Alive("ForEach")
  /\ Return("setGeneratorNext", E, NoVal, [stmt EXCEPT !.GeneratorNext = E])
  /\ UNCHANGED hist

ForEachStmt_setBody(B) ==
  /\ Alive("ForEach")
  /\ Return("setBody", B, NoVal, [stmt EXCEPT !.Body = B])
  /\ UNCHANGED hist

\* The parser builds a node, then clients call its member functions.
Next ==
  \/ BreakStmt_ctor
  \/ ContinueStmt_ctor
  \/ FallthroughStmt_ctor
  \/ BraceStmt_create
  \/ CaseStmt_create
  \/ SwitchStmt_create
  \/ ReturnStmt_ctor
  \/ IfStmt_ctor
  \/ IfConfigStmt_ctor
  \/ WhileStmt_ctor
  \/ DoWhileStmt_ctor
  \/ ForStmt_ctor
  \/ ForEachStmt_ctor
  \/ \E N \in Identifier : BreakStmt_setTargetName(N)
  \/ \E L \in Loc : BreakStmt_setTargetLoc(L)
  \/ \E LS \in Ptr : BreakStmt_setTarget(LS)
  \/ BreakStmt_getTarget
  \/ BreakStmt_getSourceRange
  \/ \E N \in Identifier : ContinueStmt_setTargetName(N)
  \/ \E L \in Loc : ContinueStmt_setTargetLoc(L)
  \/ \E LS \in Ptr : ContinueStmt_setTarget(LS)
  \/ ContinueStmt_getTarget
  \/ ContinueStmt_getSourceRange
  \/ \E C \in Ptr : FallthroughStmt_setFallthroughDest(C)
  \/ FallthroughStmt_getFallthroughDest
  \/ FallthroughStmt_getSourceRange
  \/ \E i \in 1..MaxElems, N \in Ptr : BraceStmt_setElement(i, N)
  \/ BraceStmt_markAsConfigBlock
  \/ BraceStmt_markAsInactiveConfigBlock
  \/ BraceStmt_getSourceRange
  \/ \E i \in 1..MaxItems, it \in CaseLabelItems : CaseStmt_setCaseLabelItem(i, it)
  \/ \E i \in 1..MaxItems, P \in 1..MaxChild : CaseLabelItem_setPattern(i, P)
  \/ \E i \in 1..MaxItems, e \in ChildPtr : CaseLabelItem_setGuardExpr(i, e)
  \/ \E b \in ChildPtr : CaseStmt_setBody(b)
  \/ CaseStmt_isDefault
  \/ \E e \in ChildPtr : SwitchStmt_setSubjectExpr(e)
  \/ \E e \in ChildPtr : ReturnStmt_setResult(e)
  \/ \E e \in ChildPtr : IfStmt_setCond(e)
  \/ \E s \in ChildPtr : IfStmt_setThenStmt(s)
  \/ \E s \in ChildPtr : IfStmt_setElseStmt(s)
  \/ \E s \in Ptr : IfConfigStmt_setThenStmt(s)
  \/ \E s \in Ptr : IfConfigStmt_setElseStmt(s)
  \/ \E e \in ChildPtr : IfConfigStmt_setCond(e)
  \/ IfConfigStmt_getActiveStmt
  \/ \E L \in LabeledStmtInfo : LabeledStmt_setLabelInfo(L)
  \/ \E e \in ChildPtr : WhileStmt_setCond(e)
  \/ \E s \in ChildPtr : WhileStmt_setBody(s)
  \/ \E s \in ChildPtr : DoWhileStmt_setBody(s)
  \/ \E e \in ChildPtr : DoWhileStmt_setCond(e)
  \/ \E V \in ChildPtr : ForStmt_setInitializer(V)
  \/ \E D \in ChildPtr : ForStmt_setInitializerVarDecls(D)
  \/ \E C \in ChildPtr : ForStmt_setCond(C)
  \/ \E V \in ChildPtr : ForStmt_setIncrement(V)
  \/ \E s \in ChildPtr : ForStmt_setBody(s)
  \/ \E p \in ChildPtr : ForEachStmt_setPattern(p)
  \/ \E S \in ChildPtr : ForEachStmt_setSequence(S)
  \/ \E G \in ChildPtr : ForEachStmt_setGenerator(G)
  \/ \E E \in ChildPtr : ForEachStmt_setGeneratorNext(E)
  \/ \E B \in ChildPtr : ForEachStmt_setBody(B)

Spec == Init /\ [][Next]_vars
\* ---- properties --------------------------------------------------------
BranchKinds == {"Break", "Continue"}
CreateOps == {"BraceStmt::create", "CaseStmt::create", "SwitchStmt::create"}

\* The is-default flags of a case clause's label items, in order.
IsDefaultFlags(s) ==
  [i \in 1..s.NumPatterns |-> CaseLabelItem_isDefault(CaseStmt_getCaseLabelItems(s)[i])]

\* C1: once a FallthroughStmt has a destination, no step replaces it, and a
\* setFallthroughDest call made in that state ends in a failed assert.
C1_FallthroughDestSetOnce ==
  [][(stmt.Kind = "Fallthrough" /\ stmt.FallthroughDest # nullptr)
       => /\ stmt'.FallthroughDest = stmt.FallthroughDest
          /\ (call'.op = "setFallthroughDest" => aborted')]_vars

\* C1 witness: a second setFallthroughDest, with another case clause, was rejected.
C1_Witness ==
  /\ stmt.Kind = "Fallthrough"
  /\ call.op = "setFallthroughDest"
  /\ aborted
  /\ stmt.FallthroughDest # nullptr
  /\ call.arg # nullptr
  /\ call.arg # stmt.FallthroughDest

\* C2: getFallthroughDest before a non-null destination was set fails its assert
\* and returns nothing; after setFallthroughDest(C) with C non-null it returns C.
C2_GetFallthroughDest ==
  (stmt.Kind = "Fallthrough" /\ call.op = "getFallthroughDest")
    => IF hist.first = nullptr
         THEN aborted /\ call.ret = NoVal
         ELSE ~aborted /\ call.ret = hist.first

\* C2 witness: getFallthroughDest returned the clause given to the one resolution.
C2_Witness ==
  /\ stmt.Kind = "Fallthrough"
  /\ call.op = "getFallthroughDest"
  /\ ~aborted
  /\ hist.first # nullptr
  /\ call.ret = hist.first

\* C3 (as claimed): after the first setTarget with a target, getTarget on a
\* BreakStmt or ContinueStmt always returns that first target.
C3_TargetSetOnce ==
  (stmt.Kind \in BranchKinds /\ call.op = "getTarget" /\ hist.first # nullptr)
    => call.ret = hist.first

\* C4 (as claimed): before any setTarget / setFallthroughDest call the stored
\* target of a break, continue or fallthrough statement is the unset value.
C4_UnresolvedAfterConstruction ==
  /\ (stmt.Kind \in BranchKinds /\ ~hist.called) => stmt.Target = nullptr
  /\ (stmt.Kind = "Fallthrough" /\ ~hist.called) => stmt.FallthroughDest = nullptr

\* C5: right after create, the child accessor of a BraceStmt, CaseStmt or
\* SwitchStmt returns the sequence handed to create: same length, same entries
\* in the same order.
C5_ChildrenAsSupplied ==
  (stmt.Kind \in ContainerKinds /\ call.op \in CreateOps)
    => /\ Len(Children(stmt)) = Len(call.arg)
       /\ \A i \in 1..Len(call.arg) : Children(stmt)[i] = call.arg[i]

\* C5 witness: a block created from two different elements.
C5_Witness ==
  /\ stmt.Kind = "Brace"
  /\ call.op = "BraceStmt::create"
  /\ Len(call.arg) >= 2
  /\ call.arg[1] # call.arg[2]
  /\ BraceStmt_getElements(stmt) = call.arg

\* C6: a container's child count stays the count given to create, every step
\* changes at most one child position, and writing element i of a block
\* leaves the elements at all other positions as they were.
C6_FixedArity ==
  /\ [](stmt.Kind \in ContainerKinds => Len(Children(stmt)) = hist.count)
  /\ [][stmt.Kind \in ContainerKinds
          => /\ Len(Children(stmt)') = Len(Children(stmt))
             /\ Cardinality({j \in 1..Len(Children(stmt)) :
                               Children(stmt)'[j] # Children(stmt)[j]}) <= 1
             /\ (call'.op = "getElements[]="
                   => \A j \in 1..Len(Children(stmt)) :
                        IF j = call'.arg[1]
                          THEN Children(stmt)'[j] = call'.arg[2]
                          ELSE Children(stmt)'[j] = Children(stmt)[j])]_vars

\* C6 witness: element 2 of a block was replaced and element 1 differs from it.
C6_Witness ==
  /\ stmt.Kind = "Brace"
  /\ call.op = "getElements[]="
  /\ call.arg[1] = 2
  /\ Len(BraceStmt_getElements(stmt)) = hist.count
  /\ BraceStmt_getElements(stmt)[2] = call.arg[2]
  /\ BraceStmt_getElements(stmt)[1] # call.arg[2]

\* C7: CaseStmt::isDefault returns the is-default flag of the first label item,
\* and setPattern / setGuardExpr on an item change no item's is-default flag.
C7_IsDefaultIsFirstItem ==
  /\ []((stmt.Kind = "Case" /\ call.op = "isDefault")
          => call.ret = stmt.CaseLabelItemsBuffer[1].GuardExprAndIsDefault.Int)
  /\ [][(stmt.Kind = "Case" /\ call'.op \in {"setPattern", "setGuardExpr"})
          => IsDefaultFlags(stmt)' = IsDefaultFlags(stmt)]_vars

\* C7 witness: isDefault on a clause whose second item's flag differs from the first's.
C7_Witness ==
  /\ stmt.Kind = "Case"
  /\ call.op = "isDefault"
  /\ stmt.NumPatterns >= 2
  /\ IsDefaultFlags(stmt)[1] # IsDefaultFlags(stmt)[2]
  /\ call.ret = IsDefaultFlags(stmt)[1]

\* C8: no member function changes the kind or the implicit flag of a node.
C8_KindAndImplicitFixed ==
  [][stmt.Kind # "None"
       => /\ getKind(stmt)' = getKind(stmt)
          /\ isImplicit(stmt)' = isImplicit(stmt)]_vars

\* C8 witness: a block that is not implicit after markAsInactiveConfigBlock.
C8_Witness ==
  /\ getKind(stmt) = "Brace"
  /\ call.op = "markAsInactiveConfigBlock"
  /\ stmt.IsInactiveConfigBlock
  /\ ~isImplicit(stmt)

\* C9 (as claimed): the range of a break or continue statement never ends
\* before it starts.
C9_EndNotBeforeStart ==
  (stmt.Kind \in BranchKinds /\ call.op = "getSourceRange")
    => call.ret.End >= call.ret.Start

\* C9 (amended): the range of a break or continue statement starts at Loc and
\* ends at TargetLoc when that is valid and at Loc otherwise; it ends at or
\* after its start whenever TargetLoc is invalid or not before Loc.
C9_RangeFromLocs ==
  (stmt.Kind \in BranchKinds /\ call.op = "getSourceRange")
    => /\ call.ret.Start = stmt.Loc
       /\ call.ret.End = IF stmt.TargetLoc # 0 THEN stmt.TargetLoc ELSE stmt.Loc
       /\ (stmt.TargetLoc = 0 \/ stmt.TargetLoc >= stmt.Loc)
            => call.ret.End >= call.ret.Start

\* C9 witness: the range of a break whose target name has no valid location.
C9_Witness ==
  /\ stmt.Kind = "Break"
  /\ call.op = "getSourceRange"
  /\ stmt.Loc # 0
  /\ stmt.TargetLoc = 0
  /\ call.ret = SourceRange(stmt.Loc, stmt.Loc)

\* C10: the active-branch flag of an IfConfigStmt stays the one given to the
\* constructor, and getActiveStmt returns the current Then when it is true and
\* the current Else when it is false.
C10_ActiveBranch ==
  stmt.Kind = "IfConfig"
    => /\ IfConfigStmt_isIfBlockActive(stmt) = hist.active
       /\ call.op = "getActiveStmt"
            => call.ret = IF hist.active THEN stmt.Then ELSE stmt.Else

\* C10 witness: getActiveStmt of a block whose else branch is the active one.
C10_Witness ==
  /\ stmt.Kind = "IfConfig"
  /\ call.op = "getActiveStmt"
  /\ ~hist.active
  /\ stmt.Then # stmt.Else
  /\ call.ret = stmt.Else

\* C11 (as claimed): once the Generator or the GeneratorNext field of a
\* ForEachStmt holds a value, no later step replaces it.
C11_GeneratorSetOnce ==
  [][stmt.Kind = "ForEach"
       => /\ (stmt.Generator # nullptr => stmt'.Generator = stmt.Generator)
          /\ (stmt.GeneratorNext # nullptr
                => stmt'.GeneratorNext = stmt.GeneratorNext)]_vars

\* C12: a ForEachStmt is constructed with Generator and GeneratorNext null;
\* only setGenerator changes Generator and only setGeneratorNext changes
\* GeneratorNext, and neither of the two changes Pat, Sequence or Body.
C12_GeneratorSlots ==
  /\ []((stmt.Kind = "ForEach" /\ call.op = "ForEachStmt")
          => stmt.Generator = nullptr /\ stmt.GeneratorNext = nullptr)
  /\ [][stmt.Kind = "ForEach"
          => /\ (call'.op # "setGenerator" => stmt'.Generator = stmt.Generator)
             /\ (call'.op # "setGeneratorNext"
                   => stmt'.GeneratorNext = stmt.GeneratorNext)
             /\ (call'.op = "setGeneratorNext"
                   => stmt'.GeneratorNext = call'.arg)
             /\ (call'.op \in {"setGenerator", "setGeneratorNext"}
                   => /\ stmt'.Pat = stmt.Pat
                      /\ stmt'.Sequence = stmt.Sequence
                      /\ stmt'.Body = stmt.Body)]_vars

\* C12 witness: setGeneratorNext has stored an expression while the generator
\* is still absent.
C12_Witness ==
  /\ stmt.Kind = "ForEach"
  /\ call.op = "setGeneratorNext"
  /\ stmt.GeneratorNext # nullptr
  /\ stmt.GeneratorNext = call.arg
  /\ stmt.Generator = nullptr

\* C13: no step clears a flag of a BraceStmt; markAsConfigBlock sets
\* IsConfigBlock and leaves IsInactiveConfigBlock alone, markAsInactiveConfigBlock
\* sets IsInactiveConfigBlock and leaves IsConfigBlock alone, and no other
\* member function changes either flag.
C13_BlockFlags ==
  [][stmt.Kind = "Brace"
       => /\ (stmt.IsConfigBlock => stmt'.IsConfigBlock)
          /\ (stmt.IsInactiveConfigBlock => stmt'.IsInactiveConfigBlock)
          /\ IF call'.op = "markAsConfigBlock"
               THEN stmt'.IsConfigBlock
               ELSE stmt'.IsConfigBlock = stmt.IsConfigBlock
          /\ IF call'.op = "markAsInactiveConfigBlock"
               THEN stmt'.IsInactiveConfigBlock
               ELSE stmt'.IsInactiveConfigBlock = stmt.IsInactiveConfigBlock]_vars

\* C13 witness: a block marked inactive that is not marked as a config block.
C13_Witness ==
  /\ stmt.Kind = "Brace"
  /\ call.op = "markAsInactiveConfigBlock"
  /\ stmt.IsInactiveConfigBlock
  /\ ~stmt.IsConfigBlock

====
